---- MODULE Spec2Model ----
(***************************************************************************)
(* Model of the motion-detection strategies and the ROI dispatch engine of *)
(* SimpleCV/examples/GSoC Demo/AngleFromMotion.py (ShortAngleFromMotion.py *)
(* is the same code without the Matrix, MeanColor and Mockup strategies).  *)
(*                                                                         *)
(* The SimpleCV image library (crop, image difference, getNumpy, flatten,  *)
(* meanColor, findBlobs) is not part of these files.  What it returns for  *)
(* a pair of cropped images is an input of the model: a record             *)
(*   [blobs, flat_matrix, new_mean, old_mean]                              *)
(* blobs       - whether findBlobs(-1, threshblocksize=99) found a blob in *)
(*               the difference image,                                     *)
(* flat_matrix - the flattened numpy matrix of the difference image        *)
(*               (unsigned pixel values),                                  *)
(* new_mean, old_mean - the meanColor() triples of the two images, in      *)
(*               units of 0.05 (so the threshold 0.1 is 2 units).          *)
(* Python values are written as strings: "True", "False", "None", and the  *)
(* name of the exception for a call that raises.                           *)
(***************************************************************************)
EXTENDS Integers, Sequences, FiniteSets, TLC

\* ---------------------------------------------------------------- bounds
MaxROI == 2      \* ROI objects constructed
MaxDim == 2      \* the frames are MaxDim-1 or MaxDim pixels wide and high
MaxLen == 3      \* length of a flattened difference matrix
MaxPix == 3      \* largest pixel value of a difference matrix
MaxMean == 3     \* largest mean-colour channel value, in units of 0.05
MaxCoord == 2    \* ROI fields range over -1 .. MaxCoord in the fit check
MaxReg == 3      \* MapRegionToFunc calls whose history is kept

\* ------------------------------------------------------- program constants
threshold == 2          \* 0.1 in units of 0.05
percent_threshold_num == 1   \* 0.5 = 1/2
percent_threshold_den == 2

VARIABLES
    concrete_strategy,  \* MotionDetector.concrete_strategy of the handler
    heap,               \* the ROI objects constructed so far: id -> fields
    ROIDict,            \* ROIHandler.ROIDict: ROI object -> mapped function
    new_image,          \* the two frames the caller holds
    old_image,
    op,                 \* the last method called
    arg,                \* its region argument, where it has one
    moving,             \* ROI_with_movement / moving of the last call
    ret,                \* the boolean a call returned
    raised,             \* the exception a call raised
    calls,              \* the mapped functions the last call invoked
    printed,            \* "Error: Region out of bounds" lines it printed
    regLog,             \* history: the MapRegionToFunc calls made so far
    input,              \* input of a strategy or fit check run on its own
    pc

vars == <<concrete_strategy, heap, ROIDict, new_image, old_image, op, arg,
          moving, ret, raised, calls, printed, regLog, input, pc>>

\* ---------------------------------------------------------------- values
Strategies == {"MotionDetectorByBlobs", "MotionDetectorByMatrix",
               "MotionDetectorByMeanColor", "MotionDetectorByMockup"}

Funcs == {"getAngleFromCenter", "otherFunc"}

ROI(x, y, width, height) ==
    [x |-> x, y |-> y, height |-> height, width |-> width]

Image(name, width, height) ==
    [name |-> name, width |-> width, height |-> height]

\* the frames the caller holds: the new one is full size or one pixel too
\* narrow, the old one full size or one pixel too low
Frames(name) ==
    IF name = "img1"
    THEN {Image(name, MaxDim, MaxDim), Image(name, MaxDim - 1, MaxDim)}
    ELSE {Image(name, MaxDim, MaxDim), Image(name, MaxDim, MaxDim - 1)}

\* the regions the handler is given: one fits every frame, the other only
\* the full-size frames, and those exactly
Geoms ==
    {ROI(0, 0, MaxDim - 1, MaxDim - 1), ROI(1, 1, MaxDim - 1, MaxDim - 1)}

NoPair == [blobs |-> FALSE, flat_matrix |-> <<>>,
           new_mean |-> <<0, 0, 0>>, old_mean |-> <<0, 0, 0>>]

FlatSeqs ==
    UNION {[1..n -> 0..MaxPix] : n \in 0..MaxLen}

MeanColors == [1..3 -> 0..MaxMean]

\* ------------------------------------------------------------ strategies
MotionDetectorByBlobs_isMoving(pair) ==
    IF pair.blobs THEN "True" ELSE "False"

\* counter of the loop at lines 43-45: numpy indexes from 0
MatrixCounter(flat_matrix) ==
    Cardinality({i \in 1..Len(flat_matrix) :
                    flat_matrix[flat_matrix[i] + 1] = 0})

MotionDetectorByMatrix_isMoving(pair) ==
    LET flat_matrix == pair.flat_matrix
        n == Len(flat_matrix)
    IN  IF \E i \in 1..n : flat_matrix[i] >= n
        THEN "IndexError"
        ELSE IF n = 0
        THEN "ZeroDivisionError"
        ELSE IF MatrixCounter(flat_matrix) * percent_threshold_den
                    > n * percent_threshold_num
        THEN "True"
        ELSE "False"

Abs(v) == IF v < 0 THEN -v ELSE v

\* mutant: motion only when every channel reaches the threshold
MotionDetectorByMeanColor_isMoving_allChannels(pair) ==
    LET new == pair.new_mean
        old == pair.old_mean
    IN  IF /\ Abs(new[1] - old[1]) >= threshold
           /\ Abs(new[2] - old[2]) >= threshold
           /\ Abs(new[3] - old[3]) >= threshold
        THEN "True"
        ELSE "False"

MotionDetectorByMeanColor_isMoving(pair) ==
    LET new == pair.new_mean
        old == pair.old_mean
    IN  IF \/ Abs(new[1] - old[1]) >= threshold
           \/ Abs(new[2] - old[2]) >= threshold
           \/ Abs(new[3] - old[3]) >= threshold
        THEN "True"
        ELSE "False"

MotionDetectorByMockup_isMoving(pair) == "True"

\* MotionDetector.__init__: the strategy class is instantiated if given
MotionDetector(strategy) ==
    IF strategy # "None" THEN strategy ELSE "None"

\* mutant: a detector without a strategy reports motion
MotionDetector_isMoving_defaultTrue(strategy, pair) ==
    IF strategy # "None"
    THEN CASE strategy = "MotionDetectorByBlobs" ->
                  MotionDetectorByBlobs_isMoving(pair)
           [] strategy = "MotionDetectorByMatrix" ->
                  MotionDetectorByMatrix_isMoving(pair)
           [] strategy = "MotionDetectorByMeanColor" ->
                  MotionDetectorByMeanColor_isMoving(pair)
           [] strategy = "MotionDetectorByMockup" ->
                  MotionDetectorByMockup_isMoving(pair)
    ELSE "True"

MotionDetector_isMoving(strategy, pair) ==
    IF strategy # "None"
    THEN CASE strategy = "MotionDetectorByBlobs" ->
                  MotionDetectorByBlobs_isMoving(pair)
           [] strategy = "MotionDetectorByMatrix" ->
                  MotionDetectorByMatrix_isMoving(pair)
           [] strategy = "MotionDetectorByMeanColor" ->
                  MotionDetectorByMeanColor_isMoving(pair)
           [] strategy = "MotionDetectorByMockup" ->
                  MotionDetectorByMockup_isMoving(pair)
    ELSE "False"

\* -------------------------------------------------------------- handler
\* mutant: a region that reaches the edge of the image does not fit
CheckRegionFits_strict(region, image) ==
    LET region_total_height == region.y + region.height
        region_total_width == region.x + region.width
    IN  IF /\ region_total_height < image.height
           /\ region_total_width < image.width
        THEN TRUE
        ELSE FALSE

CheckRegionFits(region, image) ==
    LET region_total_height == region.y + region.height
        region_total_width == region.x + region.width
    IN  IF /\ region_total_height <= image.height
           /\ region_total_width <= image.width
        THEN TRUE
        ELSE FALSE

\* mutant: the dict compares ROI objects by their fields
DictSet_byFields(dict, newROI, func) ==
    IF \E k \in DOMAIN dict : heap[k] = heap[newROI]
    THEN [r \in DOMAIN dict |->
            IF heap[r] = heap[newROI] THEN func ELSE dict[r]]
    ELSE [r \in DOMAIN dict \cup {newROI} |->
            IF r = newROI THEN func ELSE dict[r]]

\* MapRegionToFunc line 93: self.ROIDict[newROI] = func
DictSet(dict, newROI, func) ==
    [r \in DOMAIN dict \cup {newROI} |->
        IF r = newROI THEN func ELSE dict[r]]

\* ExecRegionFunc: the call self.ROIDict[region](region, image)
ExecRegionFunc(region, image) ==
    [func |-> ROIDict[region], region |-> region, image |-> image.name]

\* ROIDict.keys(): a dict of objects hashed by identity yields its keys by
\* hash-table slot.  The id of an ROI object stands for its slot, so the
\* keys come in ascending order of id, whatever the order of registration.
RECURSIVE keys(_)
keys(dict) ==
    IF DOMAIN dict = {}
    THEN <<>>
    ELSE LET r == CHOOSE k \in DOMAIN dict : \A j \in DOMAIN dict : k <= j
         IN  <<r>> \o keys([k \in DOMAIN dict \ {r} |-> dict[k]])

\* mutant: only the new image is checked before cropping
RegionStep_newImageOnly(r, pair, new, old) ==
    IF CheckRegionFits(heap[r], new)
    THEN MotionDetector_isMoving(concrete_strategy, pair)
    ELSE "skip"

\* mutant: a region out of bounds raises instead of printing
RegionStep_raises(r, pair, new, old) ==
    IF /\ CheckRegionFits(heap[r], new)
       /\ CheckRegionFits(heap[r], old)
    THEN MotionDetector_isMoving(concrete_strategy, pair)
    ELSE "RegionOutOfBounds"

\* one pass of the loop body of getRegionsMoving for the key r:
\* "skip" (the error line is printed) or what isMoving answers
RegionStep(r, pair, new, old) ==
    IF /\ CheckRegionFits(heap[r], new)
       /\ CheckRegionFits(heap[r], old)
    THEN MotionDetector_isMoving(concrete_strategy, pair)
    ELSE "skip"

\* getRegionsMoving over the keys in the order the dict yields them; an
\* exception of the strategy leaves the loop and the method
RECURSIVE RegionsLoop(_, _, _, _, _)
RegionsLoop(ks, lib, new, old, acc) ==
    IF ks = <<>>
    THEN acc
    ELSE LET r == Head(ks)
             step == RegionStep(r, lib[r], new, old)
         IN  CASE step = "skip" ->
                    RegionsLoop(Tail(ks), lib, new, old,
                                [acc EXCEPT !.printed = @ + 1])
               [] step = "True" ->
                    RegionsLoop(Tail(ks), lib, new, old,
                                [acc EXCEPT !.ROI_with_movement =
                                                Append(@, r)])
               [] step = "False" ->
                    RegionsLoop(Tail(ks), lib, new, old, acc)
               [] OTHER -> [acc EXCEPT !.raised = step]

getRegionsMoving(lib, new, old) ==
    RegionsLoop(keys(ROIDict), lib, new, old,
                [ROI_with_movement |-> <<>>, raised |-> "None",
                 printed |-> 0])

\* mutant: the mapped functions get the new image
ExecMoving_newImage(ROI_moving, new, old) ==
    [i \in 1..Len(ROI_moving) |-> ExecRegionFunc(ROI_moving[i], new)]

\* the loop of ExecMovingRegionFuncs: note the old image is passed
ExecMoving(ROI_moving, new, old) ==
    [i \in 1..Len(ROI_moving) |-> ExecRegionFunc(ROI_moving[i], old)]

\* --------------------------------------------- what the library may return
\* two crops with the same pixels, and two that differ in every pixel
SamePair == [blobs |-> FALSE, flat_matrix |-> <<0, 0, 0>>,
             new_mean |-> <<1, 1, 1>>, old_mean |-> <<1, 1, 1>>]

DiffPair == [blobs |-> TRUE, flat_matrix |-> <<1, 1, 1>>,
             new_mean |-> <<MaxMean, MaxMean, MaxMean>>,
             old_mean |-> <<0, 0, 0>>]

\* for a crop of one pixel (three channel values): the part of the answer
\* the strategy reads varies, and the whole of it where none is read
CropPairs(strategy) ==
    CASE strategy = "MotionDetectorByBlobs" ->
            {[NoPair EXCEPT !.blobs = b] : b \in BOOLEAN}
      [] strategy = "MotionDetectorByMatrix" ->
            {[NoPair EXCEPT !.flat_matrix = f] :
                f \in {<<0, 0, 0>>, <<1, 1, 0>>, <<3, 0, 0>>}}
      [] strategy = "MotionDetectorByMeanColor" ->
            {[NoPair EXCEPT !.new_mean = m] :
                m \in {<<1, 1, 1>>, <<0, threshold, 0>>}}
      [] OTHER -> {SamePair, DiffPair}

PyBool(b) == IF b THEN "True" ELSE "False"

NoArg == [region |-> 0, image |-> "None"]

\* the record of the last call
Called(name, a, m, r, x, c, p) ==
    /\ op' = name
    /\ arg' = a
    /\ moving' = m
    /\ ret' = r
    /\ raised' = x
    /\ calls' = c
    /\ printed' = p

\* ---------------------------------------------------------------- actions
\* ROI(x, y, width, height): the new object gets any free identity
NewROI ==
    /\ pc = "handler"
    /\ Cardinality(DOMAIN heap) < MaxROI
    /\ \E g \in Geoms, id \in (1..MaxROI) \ DOMAIN heap :
              /\ heap' = [r \in DOMAIN heap \cup {id} |->
                            IF r = id THEN g ELSE heap[r]]
              /\ Called("ROI", [NoArg EXCEPT !.region = id], <<>>, "None",
                        "None", <<>>, 0)
    /\ UNCHANGED <<concrete_strategy, ROIDict, new_image, old_image,
                   regLog, input, pc>>

MapRegionToFuncCall(newROI, func) ==
    /\ pc = "handler"
    /\ ROIDict' = DictSet(ROIDict, newROI, func)
    /\ Called("MapRegionToFunc", [NoArg EXCEPT !.region = newROI],
              <<>>, "None", "None", <<>>, 0)
    /\ UNCHANGED <<concrete_strategy, heap, new_image, old_image,
                   input, pc>>

MapRegionToFunc ==
    /\ \E newROI \in DOMAIN heap, func \in Funcs :
          MapRegionToFuncCall(newROI, func)
    /\ UNCHANGED regLog

DoCheckRegionFits ==
    /\ pc = "handler"
    /\ \E region \in DOMAIN heap, image \in {new_image, old_image} :
          Called("CheckRegionFits",
                 [region |-> region, image |-> image.name], <<>>,
                 PyBool(CheckRegionFits(heap[region], image)), "None",
                 <<>>, 0)
    /\ UNCHANGED <<concrete_strategy, heap, ROIDict, new_image, old_image,
                   regLog, input, pc>>

\* handler.MotionDetector.isMoving on a pair of images
DoIsMoving ==
    /\ pc = "handler"
    /\ \E pair \in CropPairs(concrete_strategy) :
          LET r == MotionDetector_isMoving(concrete_strategy, pair)
          IN  IF r \in {"True", "False"}
              THEN Called("isMoving", NoArg, <<>>, r, "None", <<>>, 0)
              ELSE Called("isMoving", NoArg, <<>>, "None", r, <<>>, 0)
    /\ UNCHANGED <<concrete_strategy, heap, ROIDict, new_image, old_image,
                   regLog, input, pc>>

\* mutant: getRegionsMoving drops the regions that are out of bounds
DoGetRegionsMoving_dropsUnfit ==
    /\ pc = "handler"
    /\ \E lib \in [DOMAIN ROIDict -> CropPairs(concrete_strategy)] :
          LET res == getRegionsMoving(lib, new_image, old_image)
          IN  IF res.raised = "None"
              THEN Called("getRegionsMoving", NoArg, res.ROI_with_movement,
                          "None", "None", <<>>, res.printed)
              ELSE Called("getRegionsMoving", NoArg, <<>>, "None",
                          res.raised, <<>>, res.printed)
    /\ ROIDict' = [r \in {k \in DOMAIN ROIDict :
                            /\ CheckRegionFits(heap[k], new_image)
                            /\ CheckRegionFits(heap[k], old_image)} |->
                     ROIDict[r]]
    /\ UNCHANGED <<concrete_strategy, heap, new_image, old_image,
                   regLog, input, pc>>

DoGetRegionsMoving ==
    /\ pc = "handler"
    /\ \E lib \in [DOMAIN ROIDict -> CropPairs(concrete_strategy)] :
          LET res == getRegionsMoving(lib, new_image, old_image)
          IN  IF res.raised = "None"
              THEN Called("getRegionsMoving", NoArg, res.ROI_with_movement,
                          "None", "None", <<>>, res.printed)
              ELSE Called("getRegionsMoving", NoArg, <<>>, "None",
                          res.raised, <<>>, res.printed)
    /\ UNCHANGED <<concrete_strategy, heap, ROIDict, new_image, old_image,
                   regLog, input, pc>>

DoExecRegionFunc ==
    /\ pc = "handler"
    /\ \E region \in DOMAIN heap, image \in {new_image, old_image} :
          IF region \in DOMAIN ROIDict
          THEN Called("ExecRegionFunc",
                      [region |-> region, image |-> image.name], <<>>,
                      "None", "None", <<ExecRegionFunc(region, image)>>, 0)
          ELSE Called("ExecRegionFunc",
                      [region |-> region, image |-> image.name], <<>>,
                      "None", "KeyError", <<>>, 0)
    /\ UNCHANGED <<concrete_strategy, heap, ROIDict, new_image, old_image,
                   regLog, input, pc>>

ExecMovingRegionFuncs ==
    /\ pc = "handler"
    /\ \E lib \in [DOMAIN ROIDict -> CropPairs(concrete_strategy)] :
          LET res == getRegionsMoving(lib, new_image, old_image)
          IN  IF res.raised = "None"
              THEN Called("ExecMovingRegionFuncs", NoArg,
                          res.ROI_with_movement, "None", "None",
                          ExecMoving(res.ROI_with_movement, new_image,
                                     old_image),
                          res.printed)
              ELSE Called("ExecMovingRegionFuncs", NoArg, <<>>, "None",
                          res.raised, <<>>, res.printed)
    /\ UNCHANGED <<concrete_strategy, heap, ROIDict, new_image, old_image,
                   regLog, input, pc>>

\* ROIHandler(md_strategy) and the two frames of the caller
Init ==
    /\ pc = "handler"
    /\ \E md_strategy \in Strategies \cup {"None"} :
          concrete_strategy = MotionDetector(md_strategy)
    /\ ROIDict = <<>>
    /\ heap = <<>>
    /\ new_image \in Frames("img1")
    /\ old_image \in Frames("img2")
    /\ op = "ROIHandler"
    /\ arg = NoArg
    /\ moving = <<>>
    /\ ret = "None"
    /\ raised = "None"
    /\ calls = <<>>
    /\ printed = 0
    /\ regLog = <<>>
    /\ input = NoPair

HandlerIdle(strategy) ==
    /\ concrete_strategy = MotionDetector(strategy)
    /\ ROIDict = <<>>
    /\ heap = <<>>
    /\ new_image = Image("img1", MaxDim, MaxDim)
    /\ old_image = Image("img2", MaxDim, MaxDim)
    /\ op = "ROIHandler"
    /\ arg = NoArg
    /\ moving = <<>>
    /\ ret = "None"
    /\ raised = "None"
    /\ calls = <<>>
    /\ printed = 0
    /\ regLog = <<>>

Next ==
    \/ NewROI
    \/ MapRegionToFunc
    \/ DoCheckRegionFits
    \/ DoIsMoving
    \/ DoGetRegionsMoving
    \/ DoExecRegionFunc
    \/ ExecMovingRegionFuncs

Spec == Init /\ [][Next]_vars

\* ------------------------------------------ registration with its history
\* main(): handler = ROIHandler(md_strategy=MotionDetectorByBlobs)
InitReg ==
    /\ pc = "handler"
    /\ HandlerIdle("MotionDetectorByBlobs")
    /\ input = NoPair

Register ==
    /\ Len(regLog) < MaxReg
    /\ \E newROI \in DOMAIN heap, func \in Funcs :
          /\ MapRegionToFuncCall(newROI, func)
          /\ regLog' = Append(regLog, <<newROI, func>>)

NextReg ==
    \/ NewROI
    \/ Register

SpecReg == InitReg /\ [][NextReg]_vars

\* ------------------------------------------------ CheckRegionFits alone
InitFits ==
    /\ pc = "input"
    /\ HandlerIdle("None")
    /\ \E x \in -1..MaxCoord, y \in -1..MaxCoord,
          width \in 0..MaxCoord, height \in 0..MaxCoord,
          iw \in 0..MaxCoord, ih \in 0..MaxCoord :
          input = [region |-> ROI(x, y, width, height),
                   image |-> Image("img", iw, ih)]

RunCheckRegionFits ==
    /\ pc = "input"
    /\ pc' = "done"
    /\ ret' = PyBool(CheckRegionFits(input.region, input.image))
    /\ op' = "CheckRegionFits"
    /\ UNCHANGED <<concrete_strategy, heap, ROIDict, new_image, old_image,
                   arg, moving, raised, calls, printed, regLog, input>>

NextFits == RunCheckRegionFits

SpecFits == InitFits /\ [][NextFits]_vars

\* ------------------------------------------- the strategies on their own
\* what a strategy's isMoving returns or raises
Returned(name, r) ==
    /\ pc' = "done"
    /\ op' = name
    /\ ret' = IF r \in {"True", "False"} THEN r ELSE "None"
    /\ raised' = IF r \in {"True", "False"} THEN "None" ELSE r
    /\ UNCHANGED <<concrete_strategy, heap, ROIDict, new_image, old_image,
                   arg, moving, calls, printed, regLog, input>>

InitMatrix ==
    /\ pc = "input"
    /\ HandlerIdle("MotionDetectorByMatrix")
    /\ \E f \in FlatSeqs : input = [NoPair EXCEPT !.flat_matrix = f]

RunMatrix ==
    /\ pc = "input"
    /\ Returned("MotionDetectorByMatrix.isMoving",
                MotionDetectorByMatrix_isMoving(input))

NextMatrix == RunMatrix

SpecMatrix == InitMatrix /\ [][NextMatrix]_vars

InitMeanColor ==
    /\ pc = "input"
    /\ HandlerIdle("MotionDetectorByMeanColor")
    /\ \E n \in MeanColors, o \in MeanColors :
          input = [NoPair EXCEPT !.new_mean = n, !.old_mean = o]

RunMeanColor ==
    /\ pc = "input"
    /\ Returned("MotionDetectorByMeanColor.isMoving",
                MotionDetectorByMeanColor_isMoving(input))

NextMeanColor == RunMeanColor

SpecMeanColor == InitMeanColor /\ [][NextMeanColor]_vars

\* ================================================================ claims
Range(s) == {s[i] : i \in DOMAIN s}

\* the region lies within the frame on both axes
FitsFrame(region, image) ==
    /\ region.y + region.height <= image.height
    /\ region.x + region.width <= image.width

FitsBoth(r) ==
    /\ FitsFrame(heap[r], new_image)
    /\ FitsFrame(heap[r], old_image)

TimesCalled(r) == Cardinality({i \in DOMAIN calls : calls[i].region = r})

\* C1: a registered region that does not fit the new frame or does not fit
\* the old frame is not in the result of getRegionsMoving and its function
\* is not called by ExecMovingRegionFuncs, whatever the strategy answers.
C1_UnfitNeverMoving ==
    op \in {"getRegionsMoving", "ExecMovingRegionFuncs"} =>
        \A r \in DOMAIN ROIDict :
            ~FitsBoth(r) => /\ r \notin Range(moving)
                            /\ TimesCalled(r) = 0

C1_Witness ==
    /\ op = "ExecMovingRegionFuncs"
    /\ concrete_strategy = "MotionDetectorByMockup"
    /\ \E r, q \in DOMAIN ROIDict :
          /\ FitsFrame(heap[r], new_image)
          /\ ~FitsFrame(heap[r], old_image)
          /\ TimesCalled(r) = 0
          /\ FitsBoth(q)
          /\ TimesCalled(q) = 1

\* C2: ExecMovingRegionFuncs calls, for each region in the result of
\* getRegionsMoving, the function now mapped to it exactly once with that
\* region and the old image, and calls the function of no other region.
C2_DispatchOldFrame ==
    op = "ExecMovingRegionFuncs" =>
        /\ \A r \in DOMAIN heap :
              TimesCalled(r) = IF r \in Range(moving) THEN 1 ELSE 0
        /\ \A i \in DOMAIN calls :
              /\ calls[i].region \in DOMAIN ROIDict
              /\ calls[i].func = ROIDict[calls[i].region]
              /\ calls[i].image = old_image.name
              /\ calls[i].image # new_image.name

C2_Witness ==
    /\ op = "ExecMovingRegionFuncs"
    /\ Len(calls) = 2
    /\ calls[1].func # calls[2].func
    /\ calls[1].image = "img2"

\* C3: CheckRegionFits is true exactly when y + height <= image.height and
\* x + width <= image.width; equality fits, and a negative x or y is not
\* rejected.
C3_FitsIffWithinBothAxes ==
    pc = "done" /\ op = "CheckRegionFits" =>
        (ret = "True" <=> FitsFrame(input.region, input.image))

C3_Witness ==
    /\ pc = "done"
    /\ op = "CheckRegionFits"
    /\ ret = "True"
    /\ input.region.x = -1
    /\ input.region.y + input.region.height = input.image.height
    /\ input.region.height > 0

\* C4: with MotionDetectorByMockup, getRegionsMoving returns exactly the
\* registered regions that fit both frames, each once, without raising;
\* each region that does not fit prints one error line and is skipped.
C4_MockupReturnsAllFitting ==
    concrete_strategy = "MotionDetectorByMockup" /\ op = "getRegionsMoving" =>
        /\ raised = "None"
        /\ Range(moving) = {r \in DOMAIN ROIDict : FitsBoth(r)}
        /\ Len(moving) = Cardinality(Range(moving))
        /\ printed = Cardinality({r \in DOMAIN ROIDict : ~FitsBoth(r)})

C4_Witness ==
    /\ concrete_strategy = "MotionDetectorByMockup"
    /\ op = "getRegionsMoving"
    /\ printed = 1
    /\ \E r, q \in DOMAIN ROIDict :
          /\ r < q
          /\ ~FitsBoth(r)
          /\ q \in Range(moving)

\* the last MapRegionToFunc call made with the object r
LastReg(r) ==
    CHOOSE i \in DOMAIN regLog :
        /\ regLog[i][1] = r
        /\ \A j \in DOMAIN regLog : regLog[j][1] = r => j <= i

\* C5: the keys of ROIDict are exactly the ROI objects passed to
\* MapRegionToFunc, each mapped to the function of the most recent call made
\* with that object; distinct objects with equal fields keep separate entries.
C5_IdentityKeyedOverwrite ==
    /\ DOMAIN ROIDict = {regLog[i][1] : i \in DOMAIN regLog}
    /\ \A r \in DOMAIN ROIDict : ROIDict[r] = regLog[LastReg(r)][2]

C5_Witness ==
    /\ Len(regLog) = 3
    /\ regLog[1][1] = regLog[3][1]
    /\ regLog[1][2] # regLog[3][2]
    /\ \E r, q \in DOMAIN ROIDict :
          /\ r # q
          /\ heap[r] = heap[q]
          /\ ROIDict[r] # ROIDict[q]

\* C6: a MotionDetector with no strategy answers False to isMoving; a
\* handler built with no strategy returns an empty list from
\* getRegionsMoving and calls no function, whatever is registered.
C6_NoStrategyNeverMoving ==
    concrete_strategy = "None" =>
        /\ op = "isMoving" => ret = "False" /\ raised = "None"
        /\ op \in {"getRegionsMoving", "ExecMovingRegionFuncs"} =>
              /\ moving = <<>>
              /\ calls = <<>>
              /\ raised = "None"

C6_Witness ==
    /\ concrete_strategy = "None"
    /\ op = "ExecMovingRegionFuncs"
    /\ \E r \in DOMAIN ROIDict : FitsBoth(r)
    /\ calls = <<>>

Zeros(flat) == Cardinality({i \in DOMAIN flat : flat[i] = 0})

\* C7: for a non-empty difference, MotionDetectorByMatrix.isMoving returns
\* True exactly when 1 - zeros/total is greater than 0.5, so False for
\* identical frames and True for a difference without a zero entry.
C7_TrueIffChangedFractionOverHalf ==
    pc = "done" /\ Len(input.flat_matrix) > 0 =>
        (ret = "True" <=>
            2 * (Len(input.flat_matrix) - Zeros(input.flat_matrix))
                > Len(input.flat_matrix))

\* C8: on an empty flattened difference MotionDetectorByMatrix.isMoving
\* returns False and raises nothing.
C8_EmptyDifferenceIsNoMotion ==
    pc = "done" /\ Len(input.flat_matrix) = 0 =>
        ret = "False" /\ raised = "None"

ChannelDelta(c) ==
    IF input.new_mean[c] >= input.old_mean[c]
    THEN input.new_mean[c] - input.old_mean[c]
    ELSE input.old_mean[c] - input.new_mean[c]

\* C9 as stated: MotionDetectorByMeanColor.isMoving returns True exactly
\* when some channel's absolute difference is strictly above 0.1.
C9_TrueIffStrictlyAbove ==
    pc = "done" =>
        (ret = "True" <=> \E c \in 1..3 : ChannelDelta(c) > threshold)

\* C9 amended: MotionDetectorByMeanColor.isMoving returns True exactly when
\* some channel's absolute difference is at least 0.1, and False when every
\* channel's difference is below 0.1.
C9_TrueIffAtLeastThreshold ==
    pc = "done" =>
        /\ ret \in {"True", "False"}
        /\ ret = "True" <=> \E c \in 1..3 : ChannelDelta(c) >= threshold

C9_Witness ==
    /\ pc = "done"
    /\ ret = "True"
    /\ ChannelDelta(2) = threshold
    /\ ChannelDelta(1) < threshold
    /\ ChannelDelta(3) < threshold

\* C10: CheckRegionFits, getRegionsMoving and ExecMovingRegionFuncs leave
\* ROIDict as it is; only MapRegionToFunc changes it, and no step removes a
\* key.
C10_TableChangedOnlyByRegister ==
    [][/\ op' \in {"CheckRegionFits", "getRegionsMoving",
                   "ExecMovingRegionFuncs"} => ROIDict' = ROIDict
       /\ ROIDict' # ROIDict => op' = "MapRegionToFunc"
       /\ DOMAIN ROIDict \subseteq DOMAIN ROIDict']_vars

C10_Witness ==
    /\ op = "ExecMovingRegionFuncs"
    /\ printed = 1
    /\ Len(moving) = 1
    /\ Cardinality(DOMAIN ROIDict) = 2

====
